---------------------------- MODULE Spec2Model ----------------------------
(***************************************************************************)
(* A model of pixelui: the shim between an immediate-mode GUI library      *)
(* (imgui) and the pixel 2D engine.  src/ui.go holds the frame translator  *)
(* (UI.Draw) and the colour conversion, src/input.go the input forwarder.  *)
(*                                                                         *)
(* Floating-point values are modelled by integers; every coordinate the    *)
(* model uses is an integer the float arithmetic of the code represents    *)
(* exactly.  A division by a zero determinant gives the IEEE results       *)
(* "NaN", "+Inf" and "-Inf".                                               *)
(***************************************************************************)
EXTENDS Integers, Sequences, FiniteSets, TLC

VARIABLES
    winBounds,      \* ui.win.Bounds(): [Min, Max], set by the host window
    winMouse,       \* ui.win.MousePosition()
    winScroll,      \* ui.win.MouseScroll()
    winPressed,     \* the buttons the host window reports as held down
    winCursor,      \* the cursor last given to ui.win.SetCursor
    matrix,         \* ui.matrix, a pixel.Matrix [6]float64
    timerSet,       \* !ui.timer.IsZero()
    io,             \* the fields of imgui.IO that prepareIO and imgui write
    keysData,       \* io.KeysData(): the set of slots whose Down flag is set
    shaderTris,     \* ui.shaderTris: the output triangle buffer (a sequence)
    submitted,      \* the vertices handed to the renderer by the last Draw
    data,           \* imgui.CurrentDrawData() of the last Draw
    listLog,        \* per command list of the last Draw: what Draw did in it
    lastEvent,      \* the last event delivered to the button callback
    lastQuery,      \* the last pass-through query and its result
    col32,          \* a packed colour handed to imguiColorToPixelColor
    rgba            \* the color.RGBA it returned

\* the host window, the GUI library's input state, the frame translator
winVars == <<winBounds, winMouse, winScroll, winPressed, winCursor>>
ioVars == <<timerSet, io, keysData>>
drawVars == <<shaderTris, submitted, data, listLog>>
colVars == <<col32, rgba>>

vars == <<winVars, ioVars, drawVars, colVars, matrix, lastEvent, lastQuery>>

None == "none"

\* no event delivered, no query made, no colour converted yet
NoEvent == [call |-> None]
NoQuery == [query |-> None]
NoColor == [A |-> -1, B |-> -1, G |-> -1, R |-> -1]

-----------------------------------------------------------------------------
(* Bounds of the model *)

\* commands per frame, over all its command lists
MaxCmds == 2
\* keys held down at once
MaxKeysDown == 2

-----------------------------------------------------------------------------
(* pixel.Vec, pixel.Rect and pixel.Matrix, as the calls in ui.go use them *)

V(x, y) == <<x, y>>

R(minX, minY, maxX, maxY) == [Min |-> V(minX, minY), Max |-> V(maxX, maxY)]

Min2(a, b) == IF a <= b THEN a ELSE b
Max2(a, b) == IF a >= b THEN a ELSE b

\* Rect.Norm: Min and Max swapped per axis where Min > Max
Norm(r) ==
    [Min |-> V(Min2(r.Min[1], r.Max[1]), Min2(r.Min[2], r.Max[2])),
     Max |-> V(Max2(r.Min[1], r.Max[1]), Max2(r.Min[2], r.Max[2]))]

RectSize(r) == V(r.Max[1] - r.Min[1], r.Max[2] - r.Min[2])

\* Rect.Center: the model's rectangles have even sums, so the halves are exact
Center(r) == V((r.Min[1] + r.Max[1]) \div 2, (r.Min[2] + r.Max[2]) \div 2)

\* pixel.IM, the identity, and the zero value of pixel.Matrix
IM == <<1, 0, 0, 1, 0, 0>>
ZeroMatrix == <<0, 0, 0, 0, 0, 0>>

\* Matrix.ScaledXY(around, scale)
ScaledXY(m, around, scale) ==
    <<m[1] * scale[1], m[2] * scale[2], m[3] * scale[1], m[4] * scale[2],
      (m[5] - around[1]) * scale[1] + around[1],
      (m[6] - around[2]) * scale[2] + around[2]>>

\* Matrix.Project(u)
Project(m, u) ==
    V(m[1] * u[1] + m[3] * u[2] + m[5], m[2] * u[1] + m[4] * u[2] + m[6])

\* a float that need not be finite: its class and, when finite, its value
Float(class, val) == [class |-> class, val |-> val]

\* float64 division n / d as IEEE 754 defines it; the model's non-zero
\* determinants are 1 and -1, so the finite quotients are exact
FDiv(n, d) ==
    IF d = 0
    THEN (IF n = 0 THEN Float("NaN", 0)
          ELSE IF n > 0 THEN Float("+Inf", 0) ELSE Float("-Inf", 0))
    ELSE IF d < 0 THEN Float("finite", (0 - n) \div (0 - d))
    ELSE Float("finite", n \div d)

\* Matrix.Unproject(u)
Unproject(m, u) ==
    LET det == m[1] * m[4] - m[3] * m[2]
    IN  V(FDiv(m[4] * (u[1] - m[5]) - m[3] * (u[2] - m[6]), det),
          FDiv((0 - m[2]) * (u[1] - m[5]) + m[1] * (u[2] - m[6]), det))

-----------------------------------------------------------------------------
(* The collaborators of UI.Draw: the atlas, the draw data imgui renders *)

\* a uint32 as its two 16-bit halves (TLC's integers are 32-bit signed);
\* U32(b3, b2, b1, b0) is b3<<24 | b2<<16 | b1<<8 | b0
U32(b3, b2, b1, b0) == [hi |-> b3 * 256 + b2, lo |-> b1 * 256 + b0]

\* c >> n for 0 <= n < 32
Shr(c, n) ==
    IF n >= 16
    THEN [hi |-> 0, lo |-> c.hi \div (2 ^ (n - 16))]
    ELSE [hi |-> c.hi \div (2 ^ n),
          lo |-> (c.hi % (2 ^ n)) * (2 ^ (16 - n)) + c.lo \div (2 ^ n)]

\* uint8(c & 0xFF)
LowByte(c) == c.lo % 256

\* ui.atlas and ui.font: texture id -> sub-rectangle of the one atlas texture
Atlas ==
    [font   |-> 1,
     frames |-> [id \in {1, 2} |->
                    IF id = 1 THEN R(0, 0, 8, 8) ELSE R(8, 0, 16, 4)],
     size   |-> V(16, 8)]

\* the vertex buffer of a command list: ImDrawVert {pos, uv, col}
VtxBuf ==
    << [pos |-> V(1, 1), uv |-> V(0, 0), col |-> U32(255, 0, 0, 255)],
       [pos |-> V(3, 1), uv |-> V(1, 0), col |-> U32(128, 255, 128, 0)],
       [pos |-> V(2, 4), uv |-> V(1, 1), col |-> U32(1, 2, 3, 4)] >>

\* the k-th entry (from 0) of a list's index buffer
IdxAt(k) == (2 * k + 1) % Len(VtxBuf)

\* the kinds of command imgui puts in a list: a user callback (no elements),
\* a glyph run under the "no clipping" sentinel, an image under a clip rect
CmdKinds == {"callback", "glyph", "image"}

KindElems(kind) == CASE kind = "callback" -> 0 [] kind = "glyph" -> 1 [] kind = "image" -> 2

KindClip(kind) == IF kind = "image" THEN <<1, 3, 3, 1>> ELSE <<0, 0, 0, 0>>

KindTex(kind) == IF kind = "image" THEN 2 ELSE Atlas.font

RECURSIVE SumElems(_)
SumElems(kinds) ==
    IF kinds = <<>> THEN 0 ELSE KindElems(Head(kinds)) + SumElems(Tail(kinds))

\* ImDrawList as imgui builds it: every command starts where the one before
\* it ended (ImDrawCmd.IdxOffset), a callback command has no elements
MkList(kinds) ==
    [cmds |-> [j \in 1..Len(kinds) |->
                 [callback  |-> kinds[j] = "callback",
                  elemCount |-> KindElems(kinds[j]),
                  idxOffset |-> SumElems(SubSeq(kinds, 1, j - 1)),
                  clipRect  |-> KindClip(kinds[j]),
                  texId     |-> KindTex(kinds[j])]],
     idx  |-> [k \in 1..SumElems(kinds) |-> IdxAt(k - 1)],
     vtx  |-> VtxBuf]

KindSeqs == UNION {[1..n -> CmdKinds] : n \in 0..MaxCmds}

RECURSIVE SumLen(_)
SumLen(ss) == IF ss = <<>> THEN 0 ELSE Len(Head(ss)) + SumLen(Tail(ss))

\* the numbers of command lists a frame of the model can have
ListCounts == 0..2

\* the draw data of a frame: its lists, with up to MaxCmds commands in all
Frames ==
    {[l \in 1..Len(f) |-> MkList(f[l])] :
        f \in {g \in UNION {[1..n -> KindSeqs] : n \in ListCounts} :
                  SumLen(g) <= MaxCmds}}

-----------------------------------------------------------------------------
(* src/ui.go *)

\* imguiRectToPixelRect: pixel.R(r.X, r.Y, r.Z, r.W)
imguiRectToPixelRect(r) == R(r[1], r[2], r[3], r[4])

\* PV: imgui.Vec2 -> pixel.Vec
PV(v) == V(v[1], v[2])

\* IVec: pixel.Vec -> imgui.Vec2
IVec(v) == <<v[1], v[2]>>

\* the conversion with the packed colour read as RGBA, R in the highest byte
imguiColorToPixelColorRGBA(c) ==
    [R |-> LowByte(Shr(c, 24)), G |-> LowByte(Shr(c, 16)),
     B |-> LowByte(Shr(c, 8)), A |-> LowByte(c)]

\* imguiColorToPixelColor: ABGR -> RGBA
imguiColorToPixelColor(c) ==
    [A |-> LowByte(Shr(c, 24)), B |-> LowByte(Shr(c, 16)),
     G |-> LowByte(Shr(c, 8)), R |-> LowByte(c)]

\* pixel.ToRGBA of a color.RGBA: each channel's 16-bit value c | c<<8,
\* to be read over 65535
ToRGBA(c) ==
    [R |-> c.R * 257, G |-> c.G * 257, B |-> c.B * 257, A |-> c.A * 257]

\* calcData: (uv * frame.Size() + frame.Min) * (1 / atlas texture size),
\* kept as numerator n over denominator d per axis
calcData(frame, uuvv) ==
    << [n |-> uuvv[1] * RectSize(frame)[1] + frame.Min[1], d |-> Atlas.size[1]],
       [n |-> uuvv[2] * RectSize(frame)[2] + frame.Min[2], d |-> Atlas.size[2]] >>

\* updateMatrix
updateMatrix(bounds) == ScaledXY(IM, Center(bounds), V(1, -1))

\* the vertex a GLTriangles gets when SetLen grows it
DefaultVertex ==
    [position |-> V(0, 0),
     picture |-> << [n |-> 0, d |-> 1], [n |-> 0, d |-> 1] >>,
     intensity |-> 0,
     color |-> [R |-> 65535, G |-> 65535, B |-> 65535, A |-> 65535],
     clipRect |-> R(0, 0, 0, 0)]

\* SetLen that grows the buffer and never truncates it
SetLenGrowOnly(tris, n) ==
    IF n <= Len(tris)
    THEN tris
    ELSE tris \o [k \in 1..(n - Len(tris)) |-> DefaultVertex]

\* GLTriangles.SetLen
SetLen(tris, n) ==
    IF n <= Len(tris)
    THEN SubSeq(tris, 1, n)
    ELSE tris \o [k \in 1..(n - Len(tris)) |-> DefaultVertex]

\* ui.go:176-179: the clip rectangle written for a command
ClipRectOf(cmd, m) ==
    LET c0 == Norm(imguiRectToPixelRect(cmd.clipRect))
        c1 == [Min |-> Project(m, c0.Min), Max |-> Project(m, c0.Max)]
    IN  Norm(c1)

\* ui.go:191-205: the output vertex for the index at byte offset off; an
\* index is a uint16, two bytes (ui.go:158, 192)
OutVertex(list, cmd, off, m) ==
    LET index == list.idx[(off \div 2) + 1]
        v     == list.vtx[index + 1]
    IN  [position  |-> PV(v.pos),
         picture   |-> calcData(Atlas.frames[cmd.texId], PV(v.uv)),
         intensity |-> IF cmd.texId # Atlas.font THEN 1 ELSE 0,
         color     |-> ToRGBA(imguiColorToPixelColor(v.col)),
         clipRect  |-> ClipRectOf(cmd, m)]

\* the element loop with indexBufferOffset never advanced
RECURSIVE DrawElemsStuck(_, _, _, _, _, _)
DrawElemsStuck(st, list, cmd, iStart, i, m) ==
    IF i >= cmd.elemCount THEN st
    ELSE DrawElemsStuck(
            [st EXCEPT !.tris = [st.tris EXCEPT ![iStart + i + 1] =
                                    OutVertex(list, cmd, st.off, m)],
                       !.wrote = st.wrote + 1],
            list, cmd, iStart, i + 1, m)

\* ui.go:190-207: the loop over the elements of one command; st carries
\* shaderTris and indexBufferOffset
RECURSIVE DrawElems(_, _, _, _, _, _)
DrawElems(st, list, cmd, iStart, i, m) ==
    IF i >= cmd.elemCount THEN st
    ELSE DrawElems(
            [st EXCEPT !.tris = [st.tris EXCEPT ![iStart + i + 1] =
                                    OutVertex(list, cmd, st.off, m)],
                       !.off  = st.off + 2,
                       !.wrote = st.wrote + 1],
            list, cmd, iStart, i + 1, m)

\* ui.go:165-208: one command
DrawCmd(st, list, cmd, m) ==
    IF cmd.callback
    THEN [st EXCEPT !.called = st.called + 1]
    ELSE LET iStart == st.total
             total  == st.total + cmd.elemCount
             grow   == Len(st.tris) < total
             s1     == [st EXCEPT !.total = total,
                                  !.tris  = IF grow THEN SetLen(st.tris, total)
                                            ELSE st.tris,
                                  !.grew  = IF grow THEN st.grew + 1
                                            ELSE st.grew]
         IN  DrawElems(s1, list, cmd, iStart, 0, m)

RECURSIVE DrawCmds(_, _, _, _)
DrawCmds(st, list, j, m) ==
    IF j > Len(list.cmds) THEN st
    ELSE DrawCmds(DrawCmd(st, list, list.cmds[j], m), list, j + 1, m)

\* the walk of one list with a vertex reserved before the commands are read
DrawListReserve(st, list, m) ==
    LET s0 == [st EXCEPT !.off = 0, !.wrote = 0, !.called = 0,
                         !.grew = 1,
                         !.tris = SetLen(st.tris, Len(st.tris) + 1)]
        s1 == DrawCmds(s0, list, 1, m)
    IN  [s1 EXCEPT !.log = Append(s1.log,
                              [wrote |-> s1.wrote, grew |-> s1.grew,
                               called |-> s1.called])]

\* ui.go:159-163: one command list; indexBufferOffset starts at 0
DrawList(st, list, m) ==
    LET s0 == [st EXCEPT !.off = 0, !.wrote = 0, !.grew = 0, !.called = 0]
        s1 == DrawCmds(s0, list, 1, m)
    IN  [s1 EXCEPT !.log = Append(s1.log,
                              [wrote |-> s1.wrote, grew |-> s1.grew,
                               called |-> s1.called])]

RECURSIVE DrawLists(_, _, _, _)
DrawLists(st, d, l, m) ==
    IF l > Len(d) THEN st
    ELSE DrawLists(DrawList(st, d[l], m), d, l + 1, m)

\* ui.go:152-212: the walk over the draw data and the final truncation
DrawData(tris, d, m) ==
    LET s0 == [tris |-> tris, total |-> 0, off |-> 0, wrote |-> 0,
               grew |-> 0, called |-> 0, log |-> <<>>]
        s1 == DrawLists(s0, d, 1, m)
    IN  [s1 EXCEPT !.tris = SetLen(s1.tris, s1.total)]

\* UI.Draw, with the draw data imgui.Render produced for the frame
DrawWith(frames) ==
    \E d \in frames :
        LET m == updateMatrix(winBounds)
            s == DrawData(shaderTris, d, m)
        IN  /\ matrix' = m
            /\ data' = d
            /\ shaderTris' = s.tris
            /\ submitted' = s.tris
            /\ listLog' = s.log
            /\ lastEvent' = NoEvent
            /\ lastQuery' = NoQuery
            /\ UNCHANGED <<winVars, ioVars, colVars>>

Draw == DrawWith(Frames)

-----------------------------------------------------------------------------
(* The host window *)

\* window bounds the host can have
WinBounds == {R(0, 0, 4, 4), R(0, 0, 6, 2)}

\* the host resizes the window
Resize ==
    /\ \E b \in WinBounds : b # winBounds /\ winBounds' = b
    /\ lastEvent' = NoEvent
    /\ lastQuery' = NoQuery
    /\ UNCHANGED <<winMouse, winScroll, winPressed, winCursor, matrix,
                   ioVars, drawVars, colVars>>

\* the state New leaves: ui.matrix and ui.timer are zero values,
\* initIO has set the display size, the triangle buffer is empty
Init ==
    /\ winBounds = R(0, 0, 4, 4)
    /\ winMouse = V(0, 0)
    /\ winScroll = V(0, 0)
    /\ winPressed = {}
    /\ winCursor = None
    /\ matrix = ZeroMatrix
    /\ timerSet = FALSE
    /\ io = [DisplaySize |-> IVec(RectSize(R(0, 0, 4, 4))),
             DeltaTime |-> "default", MouseWheel |-> V(0, 0),
             MousePos |-> <<Float("-FLT_MAX", 0), Float("-FLT_MAX", 0)>>, MouseDown |-> <<FALSE, FALSE, FALSE>>,
             KeyCtrl |-> FALSE, KeyShift |-> FALSE, KeyAlt |-> FALSE,
             KeySuper |-> FALSE, WantCaptureMouse |-> FALSE,
             WantCaptureKeyboard |-> FALSE]
    /\ keysData = {}
    /\ shaderTris = <<>>
    /\ submitted = <<>>
    /\ data = <<>>
    /\ listLog = <<>>
    /\ lastEvent = NoEvent
    /\ lastQuery = NoQuery
    /\ col32 = U32(0, 0, 0, 0)
    /\ rgba = NoColor

NextDraw == Draw \/ Resize

SpecDraw == Init /\ [][NextDraw]_vars

-----------------------------------------------------------------------------
(* pixel.Button and imgui.Key: the values the two libraries give the names *)
(* src/input.go uses                                                       *)

\* pixel.Button: UnknownButton = 0, MouseButton1..8 = 1..8, then the keys
ButtonCode ==
    [UnknownButton |-> 0,
     MouseButton1 |-> 1, MouseButton2 |-> 2, MouseButton3 |-> 3,
     MouseButton4 |-> 4, MouseButton5 |-> 5, MouseButton6 |-> 6,
     MouseButton7 |-> 7, MouseButton8 |-> 8,
     KeySpace |-> 10, Key0 |-> 16, KeySemicolon |-> 26,
     KeyA |-> 28, KeyB |-> 29, KeyC |-> 30, KeyT |-> 47, KeyV |-> 49,
     KeyW |-> 50, KeyX |-> 51, KeyY |-> 52, KeyZ |-> 53,
     KeyEscape |-> 60, KeyEnter |-> 61, KeyTab |-> 62, KeyBackspace |-> 63,
     KeyInsert |-> 64, KeyDelete |-> 65, KeyRight |-> 66, KeyLeft |-> 67,
     KeyDown |-> 68, KeyUp |-> 69, KeyPageUp |-> 70, KeyPageDown |-> 71,
     KeyHome |-> 72, KeyEnd |-> 73,
     KeyLeftShift |-> 121, KeyLeftControl |-> 122, KeyLeftAlt |-> 123,
     KeyLeftSuper |-> 124, KeyRightShift |-> 125, KeyRightControl |-> 126,
     KeyRightAlt |-> 127, KeyRightSuper |-> 128, KeyMenu |-> 129]

\* imgui.Key: the named keys start at 512 (ImGuiKey_NamedKey_BEGIN)
ImguiKey ==
    [KeyTab |-> 512, KeyLeftArrow |-> 513, KeyRightArrow |-> 514,
     KeyUpArrow |-> 515, KeyDownArrow |-> 516, KeyPageUp |-> 517,
     KeyPageDown |-> 518, KeyHome |-> 519, KeyEnd |-> 520,
     KeyInsert |-> 521, KeyDelete |-> 522, KeyBackspace |-> 523,
     KeySpace |-> 524, KeyEnter |-> 525, KeyEscape |-> 526,
     KeyA |-> 546, KeyC |-> 548, KeyV |-> 567, KeyX |-> 569,
     KeyY |-> 570, KeyZ |-> 571]

\* Button.IsKeyboardButton
IsKeyboardButton(b) == b \notin 0..8

-----------------------------------------------------------------------------
(* src/input.go *)

\* keyMap: pixel.Button -> imgui.Key
keyMap ==
    [b \in {ButtonCode[n] : n \in
              {"KeyTab", "KeyLeft", "KeyRight", "KeyUp", "KeyDown",
               "KeyPageUp", "KeyPageDown", "KeyHome", "KeyEnd", "KeyInsert",
               "KeyDelete", "KeyBackspace", "KeySpace", "KeyEnter",
               "KeyEscape", "KeyA", "KeyC", "KeyV", "KeyX", "KeyY", "KeyZ"}}
     |-> CASE b = ButtonCode.KeyTab       -> ImguiKey.KeyTab
           [] b = ButtonCode.KeyLeft      -> ImguiKey.KeyLeftArrow
           [] b = ButtonCode.KeyRight     -> ImguiKey.KeyRightArrow
           [] b = ButtonCode.KeyUp        -> ImguiKey.KeyUpArrow
           [] b = ButtonCode.KeyDown      -> ImguiKey.KeyDownArrow
           [] b = ButtonCode.KeyPageUp    -> ImguiKey.KeyPageUp
           [] b = ButtonCode.KeyPageDown  -> ImguiKey.KeyPageDown
           [] b = ButtonCode.KeyHome      -> ImguiKey.KeyHome
           [] b = ButtonCode.KeyEnd       -> ImguiKey.KeyEnd
           [] b = ButtonCode.KeyInsert    -> ImguiKey.KeyInsert
           [] b = ButtonCode.KeyDelete    -> ImguiKey.KeyDelete
           [] b = ButtonCode.KeyBackspace -> ImguiKey.KeyBackspace
           [] b = ButtonCode.KeySpace     -> ImguiKey.KeySpace
           [] b = ButtonCode.KeyEnter     -> ImguiKey.KeyEnter
           [] b = ButtonCode.KeyEscape    -> ImguiKey.KeyEscape
           [] b = ButtonCode.KeyA         -> ImguiKey.KeyA
           [] b = ButtonCode.KeyC         -> ImguiKey.KeyC
           [] b = ButtonCode.KeyV         -> ImguiKey.KeyV
           [] b = ButtonCode.KeyX         -> ImguiKey.KeyX
           [] b = ButtonCode.KeyY         -> ImguiKey.KeyY
           [] b = ButtonCode.KeyZ         -> ImguiKey.KeyZ]

\* the slot computed with the table's offset off by one
mappedValOffByOne(button) ==
    IF button \in DOMAIN keyMap THEN keyMap[button] - 511 ELSE button + 8

\* input.go:38-43: the index into io.KeysData() the callback writes
mappedVal(button) ==
    IF button \in DOMAIN keyMap THEN keyMap[button] - 512 ELSE button + 8

\* the buttons the host delivers events for in the model: every key of the
\* table, keys outside it, a mouse button
EventButtons ==
    DOMAIN keyMap \cup
    {ButtonCode[n] : n \in {"Key0", "KeySemicolon", "KeyB", "KeyT", "KeyW",
                            "KeyMenu", "MouseButton1"}}

Actions == {"Press", "Release", "Repeat"}

\* the callback initIO registers with SetButtonCallback, run by the host
\* window for a button event: a button goes down (Press), is held (Repeat)
\* or goes up (Release)
ButtonCallback ==
    \E button \in EventButtons, action \in Actions :
        /\ action = "Press" =>
              button \notin winPressed /\ Cardinality(winPressed) < MaxKeysDown
        /\ action # "Press" => button \in winPressed
        /\ winPressed' = CASE action = "Press"   -> winPressed \cup {button}
                           [] action = "Release" -> winPressed \ {button}
                           [] OTHER              -> winPressed
        /\ keysData' =
              IF ~IsKeyboardButton(button) THEN keysData
              ELSE CASE action = "Press"   -> keysData \cup {mappedVal(button)}
                     [] action = "Release" -> keysData \ {mappedVal(button)}
                     [] OTHER              -> keysData
        /\ lastEvent' = [call |-> "ButtonCallback", button |-> button,
                         action |-> action, before |-> keysData]
        /\ lastQuery' = NoQuery
        /\ UNCHANGED <<winBounds, winMouse, winScroll, winCursor, matrix,
                       timerSet, io, drawVars, colVars>>

NextKeys == ButtonCallback

SpecKeys == Init /\ [][NextKeys]_vars

\* inputWant with only the left, right and middle buttons taken as mouse
inputWantThree(button) ==
    IF button \in {ButtonCode.MouseButton1, ButtonCode.MouseButton2,
                   ButtonCode.MouseButton3}
    THEN io.WantCaptureMouse
    ELSE io.WantCaptureKeyboard

\* inputWant
inputWant(button) ==
    IF button \in {ButtonCode.MouseButton1, ButtonCode.MouseButton2,
                   ButtonCode.MouseButton3, ButtonCode.MouseButton4,
                   ButtonCode.MouseButton5, ButtonCode.MouseButton6,
                   ButtonCode.MouseButton7, ButtonCode.MouseButton8}
    THEN io.WantCaptureMouse
    ELSE io.WantCaptureKeyboard

\* the buttons the application asks about in the model
QueryButtons ==
    {ButtonCode[n] : n \in {"UnknownButton", "MouseButton1", "MouseButton3",
                            "MouseButton4", "MouseButton8", "KeySpace",
                            "KeyA", "KeyMenu"}}

\* one pass-through query; host is what ui.win answers to the same query
Query(name, button, host) ==
    /\ lastQuery' = [query |-> name, button |-> button, host |-> host,
                     result |-> ~inputWant(button) /\ host]
    /\ lastEvent' = NoEvent
    /\ UNCHANGED <<winVars, ioVars, drawVars, colVars, matrix>>

JustPressed ==
    \E button \in QueryButtons, host \in BOOLEAN :
        Query("JustPressed", button, host)

JustReleased ==
    \E button \in QueryButtons, host \in BOOLEAN :
        Query("JustReleased", button, host)

Pressed ==
    \E button \in QueryButtons, host \in BOOLEAN :
        Query("Pressed", button, host)

Repeated ==
    \E button \in QueryButtons, host \in BOOLEAN :
        Query("Repeated", button, host)

\* pixel.ZV
ZV == V(0, 0)

\* MouseScroll's value with the capture test inverted
MouseScrollInverted == IF ~io.WantCaptureMouse THEN ZV ELSE winScroll

\* input.go:107-111: what MouseScroll returns
MouseScrollValue == IF io.WantCaptureMouse THEN ZV ELSE winScroll

MouseScroll ==
    /\ lastQuery' = [query |-> "MouseScroll", result |-> MouseScrollValue]
    /\ lastEvent' = NoEvent
    /\ UNCHANGED <<winVars, ioVars, drawVars, colVars, matrix>>

\* imgui decides, while it builds a frame, which devices it wants to capture
GuiWantCapture ==
    /\ \E wm \in BOOLEAN, wk \in BOOLEAN :
          /\ <<wm, wk>> # <<io.WantCaptureMouse, io.WantCaptureKeyboard>>
          /\ io' = [io EXCEPT !.WantCaptureMouse = wm,
                              !.WantCaptureKeyboard = wk]
    /\ lastEvent' = NoEvent
    /\ lastQuery' = NoQuery
    /\ UNCHANGED <<winVars, timerSet, keysData, drawVars, colVars, matrix>>

\* scroll amounts the host window can report for a frame
Scrolls == {V(0, 0), V(0, 1), V(-2, 3)}

\* the host window records the scroll of the frame
HostScroll ==
    /\ \E sc \in Scrolls : sc # winScroll /\ winScroll' = sc
    /\ lastEvent' = NoEvent
    /\ lastQuery' = NoQuery
    /\ UNCHANGED <<winBounds, winMouse, winPressed, winCursor, ioVars,
                   drawVars, colVars, matrix>>

NextQuery ==
    \/ JustPressed
    \/ JustReleased
    \/ Pressed
    \/ Repeated
    \/ MouseScroll
    \/ GuiWantCapture
    \/ HostScroll

SpecQuery == Init /\ [][NextQuery]_vars

\* ui.cursors after initIO: the imgui cursor shapes that have a host cursor
Cursors ==
    {"MouseCursorArrow", "MouseCursorTextInput", "MouseCursorHand",
     "MouseCursorResizeEW", "MouseCursorResizeNS"}

\* the cursor shapes imgui asks for in the model
WantedCursors == {"MouseCursorArrow", "MouseCursorTextInput",
                  "MouseCursorNotAllowed"}

Held(name) == ButtonCode[name] \in winPressed

\* prepareIO and updateKeyMod: the io fields pushed before imgui.NewFrame
prepareIO(i) ==
    [i EXCEPT
        !.DisplaySize = IVec(RectSize(winBounds)),
        !.MouseWheel  = V(i.MouseWheel[1] + winScroll[1],
                          i.MouseWheel[2] + winScroll[2]),
        !.MousePos    = Unproject(matrix, winMouse),
        !.MouseDown   = <<Held("MouseButton1"), Held("MouseButton2"),
                          Held("MouseButton3")>>,
        !.KeyCtrl     = Held("KeyLeftControl") \/ Held("KeyRightControl"),
        !.KeyShift    = Held("KeyLeftShift") \/ Held("KeyRightShift"),
        !.KeyAlt      = Held("KeyLeftAlt") \/ Held("KeyRightAlt"),
        !.KeySuper    = Held("KeyLeftSuper") \/ Held("KeyRightSuper")]

\* UI.NewFrame: the delta time, prepareIO (with the cursor it sets), then
\* imgui.NewFrame, which consumes the wheel and settles what imgui captures
NewFrame ==
    \E cursor \in WantedCursors, wm \in BOOLEAN, wk \in BOOLEAN :
        LET i1 == IF timerSet THEN [io EXCEPT !.DeltaTime = "since timer"]
                  ELSE io
            i2 == prepareIO(i1)
        IN  /\ timerSet' = TRUE
            /\ io' = [i2 EXCEPT !.MouseWheel = V(0, 0),
                                !.WantCaptureMouse = wm,
                                !.WantCaptureKeyboard = wk]
            /\ winCursor' = IF cursor \in Cursors THEN cursor
                            ELSE "MouseCursorArrow"
            /\ lastEvent' = [call |-> "NewFrame", wheel |-> i2.MouseWheel]
            /\ lastQuery' = NoQuery
            /\ UNCHANGED <<winBounds, winMouse, winScroll, winPressed,
                           keysData, drawVars, colVars, matrix>>

\* pointer positions the host window can report
MousePositions == {V(0, 0), V(1, 3), V(4, 2)}

\* the host moves the pointer
MoveMouse ==
    /\ \E p \in MousePositions : p # winMouse /\ winMouse' = p
    /\ lastEvent' = NoEvent
    /\ lastQuery' = NoQuery
    /\ UNCHANGED <<winBounds, winScroll, winPressed, winCursor, ioVars,
                   drawVars, colVars, matrix>>

\* the draw data of the frames of SpecFrame: nothing, or one glyph
IdleFrames == {<<>>, <<MkList(<<"glyph">>)>>}

DrawIdle == DrawWith(IdleFrames)

NextFrame == NewFrame \/ DrawIdle \/ Resize \/ MoveMouse

SpecFrame == Init /\ [][NextFrame]_vars

\* packed colours: every channel from a set of byte values
ByteVals == {0, 1, 128, 255}

Colors == {U32(a, b, g, r) : a \in ByteVals, b \in ByteVals,
                            g \in ByteVals, r \in ByteVals}

\* a vertex colour is converted
ConvertColor ==
    /\ \E c \in Colors : col32' = c /\ rgba' = imguiColorToPixelColor(c)
    /\ lastEvent' = NoEvent
    /\ lastQuery' = NoQuery
    /\ UNCHANGED <<winVars, ioVars, drawVars, matrix>>

NextColor == ConvertColor

SpecColor == Init /\ [][NextColor]_vars

-----------------------------------------------------------------------------
(* The frame translator's properties, under SpecDraw *)

\* the element count of the non-callback commands of a list
RECURSIVE ListElems(_)
ListElems(cmds) ==
    IF cmds = <<>> THEN 0
    ELSE (IF Head(cmds).callback THEN 0 ELSE Head(cmds).elemCount)
         + ListElems(Tail(cmds))

\* ... and of the first n lists of a frame
RECURSIVE FrameElems(_, _)
FrameElems(d, n) ==
    IF n = 0 THEN 0 ELSE FrameElems(d, n - 1) + ListElems(d[n].cmds)

\* where the i-th vertex (from 0) of command j of list l lies in the output
OutPos(d, l, j, i) ==
    FrameElems(d, l - 1) + ListElems(SubSeq(d[l].cmds, 1, j - 1)) + i + 1

\* the non-callback commands of the frame, as <<list, command>>
DrawnCmds(d) ==
    {lj \in UNION {{<<l, j>> : j \in 1..Len(d[l].cmds)} : l \in 1..Len(d)} :
        ~d[lj[1]].cmds[lj[2]].callback}

\* C1: after Draw the buffer submitted to the renderer (and the buffer kept)
\* has exactly as many vertices as the non-callback commands of the frame
\* have elements, whatever length the buffer had before.
ThmC1_ExactCount ==
    /\ Len(submitted) = FrameElems(data, Len(data))
    /\ Len(shaderTris) = FrameElems(data, Len(data))

\* a frame of two lists with a callback drawn into a buffer that was already
\* long enough: no list grew it
WitC1_ShrunkFrame ==
    /\ Len(data) = 2
    /\ Len(submitted) >= 1
    /\ \E l \in 1..Len(data) : listLog[l].called > 0
    /\ \A l \in 1..Len(data) : listLog[l].grew = 0

\* C2 as claimed: every vertex of a command whose clip rectangle is the
\* sentinel (0,0,0,0) carries the clip rectangle (0,0,0,0).
OrigC2_SentinelUnmodified ==
    \A lj \in DrawnCmds(data) :
        LET cmd == data[lj[1]].cmds[lj[2]]
        IN  cmd.clipRect = <<0, 0, 0, 0>> =>
              \A i \in 0..(cmd.elemCount - 1) :
                 submitted[OutPos(data, lj[1], lj[2], i)].clipRect
                    = R(0, 0, 0, 0)

\* C6 as claimed: a Draw of a frame made of empty command lists leaves the
\* length of the output buffer as it was.
OrigC6_NoResize ==
    [][(/\ winBounds' = winBounds
        /\ data' # <<>>
        /\ \A l \in 1..Len(data') : data'[l].cmds = <<>>)
       => Len(shaderTris') = Len(shaderTris)]_vars

\* C6 as amended: while it walks a command list with zero commands, Draw
\* writes no vertex and makes no SetLen call; only the truncation at the end
\* of Draw can still change the buffer's length.
ThmC6_EmptyListNoOp ==
    \A l \in 1..Len(data) :
        data[l].cmds = <<>> => listLog[l].wrote = 0 /\ listLog[l].grew = 0

\* an empty list followed by a list that grew the buffer
WitC6_EmptyThenGrow ==
    /\ Len(data) = 2
    /\ data[1].cmds = <<>>
    /\ listLog[2].grew > 0
    /\ listLog[2].wrote > 0

-----------------------------------------------------------------------------
(* The input forwarder's properties *)

\* the index of a named imgui key in io.KeysData: its place after KeyTab,
\* the first named key
NamedKeySlot(key) == key - ImguiKey.KeyTab

\* the slot the specification gives a host keyboard button: the slot of its named
\* key for a button of the table, the host code plus 8 otherwise
ClaimedSlot(button) ==
    IF button \in DOMAIN keyMap THEN NamedKeySlot(keyMap[button])
    ELSE button + 8

\* C3 (SpecKeys): a Press or Release of a keyboard button sets the Down flag
\* of exactly one slot, true on Press and false on Release, and leaves every
\* other slot as it was: the named key's slot for a button of keyMap, the
\* slot (host code + 8) for any other button, which is never dropped.
ThmC3_KeyEvent ==
    (lastEvent.call = "ButtonCallback" /\ IsKeyboardButton(lastEvent.button)) =>
        CASE lastEvent.action = "Press" ->
                keysData = lastEvent.before \cup {ClaimedSlot(lastEvent.button)}
          [] lastEvent.action = "Release" ->
                keysData = lastEvent.before \ {ClaimedSlot(lastEvent.button)}
          [] OTHER -> keysData = lastEvent.before

\* Tab (in the table) is down, and 0 (outside it) has just been released
\* from its slot 16 + 8 while Tab's slot stayed down
WitC3_TableAndHeuristic ==
    /\ lastEvent.call = "ButtonCallback"
    /\ lastEvent.button = ButtonCode.Key0
    /\ lastEvent.action = "Release"
    /\ lastEvent.before = {NamedKeySlot(ImguiKey.KeyTab), ButtonCode.Key0 + 8}
    /\ keysData = {NamedKeySlot(ImguiKey.KeyTab)}

\* C10 as claimed (SpecKeys): the slot of a named key of the table is down
\* only while the host key mapped to it is held.
OrigC10_SlotsNotShared ==
    \A b \in DOMAIN keyMap :
        NamedKeySlot(keyMap[b]) \in keysData => b \in winPressed

\* C4 (SpecQuery): JustPressed, JustReleased, Pressed and Repeated answer
\* false when imgui wants the button's device (the mouse for mouse buttons
\* 1..8, the keyboard for every other button), else the host's own answer.
ThmC4_PassThrough ==
    lastQuery.query \in {"JustPressed", "JustReleased", "Pressed", "Repeated"} =>
        LET mouse    == lastQuery.button \in 1..8
            captured == IF mouse THEN io.WantCaptureMouse
                        ELSE io.WantCaptureKeyboard
        IN  lastQuery.result = (IF captured THEN FALSE ELSE lastQuery.host)

\* mouse button 8 passes through while imgui has the keyboard, not the mouse
WitC4_MouseButton8 ==
    /\ lastQuery.query = "Repeated"
    /\ lastQuery.button = 8
    /\ lastQuery.host
    /\ lastQuery.result
    /\ io.WantCaptureKeyboard
    /\ ~io.WantCaptureMouse

\* C5 (SpecQuery): MouseScroll returns the zero vector when imgui wants the
\* mouse and the host's scroll value otherwise.
ThmC5_MouseScroll ==
    lastQuery.query = "MouseScroll" =>
        /\ io.WantCaptureMouse => lastQuery.result = <<0, 0>>
        /\ ~io.WantCaptureMouse => lastQuery.result = winScroll

\* a non-zero scroll withheld because imgui wants the mouse
WitC5_Captured ==
    /\ lastQuery.query = "MouseScroll"
    /\ io.WantCaptureMouse
    /\ winScroll = <<-2, 3>>
    /\ lastQuery.result = <<0, 0>>

\* C8 as claimed (SpecFrame): the pointer position NewFrame pushes is the
\* host pointer position through the inverse of the matrix of the window's
\* bounds at that call.
OrigC8_CurrentMatrix ==
    lastEvent.call = "NewFrame" =>
        io.MousePos = Unproject(updateMatrix(winBounds), winMouse)

-----------------------------------------------------------------------------
(* The colour conversion's property, under SpecColor *)

\* A<<24 | B<<16 | G<<8 | R
Repack(c) == [hi |-> c.A * 256 + c.B, lo |-> c.G * 256 + c.R]

\* C7: imguiColorToPixelColor takes alpha from bits 24..31, blue from bits
\* 16..23, green from bits 8..15 and red from bits 0..7, so re-packing its
\* result gives the packed colour back.
ThmC7_RoundTrip ==
    rgba # NoColor =>
        /\ rgba.A = col32.hi \div 256
        /\ rgba.B = col32.hi % 256
        /\ rgba.G = col32.lo \div 256
        /\ rgba.R = col32.lo % 256
        /\ Repack(rgba) = col32

\* a colour of four different bytes, converted
WitC7_FourBytes ==
    /\ col32 = U32(255, 128, 1, 0)
    /\ rgba = [A |-> 255, B |-> 128, G |-> 1, R |-> 0]

=============================================================================
